---------------------------- MODULE Spec2Model ----------------------------
(***************************************************************************)
(* Expression Converter & Evaluator (src/script.js, class                  *)
(* ExpressionConverter): validation of an infix expression, Shunting-Yard  *)
(* conversion to postfix and prefix, and stack evaluation of both forms.   *)
(*                                                                         *)
(* A JavaScript string is a sequence of one-character strings.  A JavaScript *)
(* number is an exact rational <<n, d>> in lowest terms with d > 0: the    *)
(* evaluators only add, subtract, multiply and divide values parsed from   *)
(* short decimal literals, and the only test on a value is "=== 0".        *)
(***************************************************************************)
EXTENDS Integers, Sequences, FiniteSets, TLC

VARIABLES
    infixInput,         \* value of the #infixInput field
    postfixResult,      \* text of #postfixResult
    prefixResult,       \* text of #prefixResult
    postfixEvalResult,  \* content of #postfixEvalResult
    prefixEvalResult,   \* content of #prefixEvalResult
    stepsContainer,     \* steps rendered in #stepsContainer
    steps,              \* this.steps
    errorMessage,       \* text of #errorMessage
    errorVisible,       \* #errorContainer lacks class d-none
    evalDisabled,       \* evaluatePostfixBtn.disabled / evaluatePrefixBtn.disabled
    call,               \* a direct method call: the method and its argument
    ret                 \* what that call returned or threw

vars == <<infixInput, postfixResult, prefixResult, postfixEvalResult,
          prefixEvalResult, stepsContainer, steps, errorMessage, errorVisible,
          evalDisabled, call, ret>>

uiVars == <<infixInput, postfixResult, prefixResult, postfixEvalResult,
            prefixEvalResult, stepsContainer, errorMessage, errorVisible,
            evalDisabled>>

-----------------------------------------------------------------------------
(* Bounds of the checked input sets.                                       *)

\* longest infix string drawn exhaustively over InfixAlphabet
MaxLen == 4

\* longest token stream drawn exhaustively over EvalTokens
MaxTokens == 5

-----------------------------------------------------------------------------
(* Characters and strings.                                                 *)

Digits == {"0", "1", "2", "3", "4", "5", "6", "7", "8", "9"}

Letters ==
    {"a", "b", "c", "d", "e", "f", "g", "h", "i", "j", "k", "l", "m",
     "n", "o", "p", "q", "r", "s", "t", "u", "v", "w", "x", "y", "z",
     "A", "B", "C", "D", "E", "F", "G", "H", "I", "J", "K", "L", "M",
     "N", "O", "P", "Q", "R", "S", "T", "U", "V", "W", "X", "Y", "Z"}

DigitVal(c) ==
    CASE c = "0" -> 0 [] c = "1" -> 1 [] c = "2" -> 2 [] c = "3" -> 3
      [] c = "4" -> 4 [] c = "5" -> 5 [] c = "6" -> 6 [] c = "7" -> 7
      [] c = "8" -> 8 [] c = "9" -> 9

\* Array.prototype.reverse / split('').reverse().join('')
Reverse(s) == [i \in 1..Len(s) |-> s[Len(s) + 1 - i]]

\* Array.prototype.join: the tokens with sep between neighbours
RECURSIVE Join(_, _)
Join(tokens, sep) ==
    IF Len(tokens) = 0 THEN <<>>
    ELSE IF Len(tokens) = 1 THEN tokens[1]
    ELSE tokens[1] \o sep \o Join(Tail(tokens), sep)

\* String.prototype.split(' '): the pieces between single spaces; "" gives [""]
RECURSIVE SplitFrom(_, _, _, _)
SplitFrom(s, i, cur, acc) ==
    IF i > Len(s) THEN Append(acc, cur)
    ELSE IF s[i] = " " THEN SplitFrom(s, i + 1, <<>>, Append(acc, cur))
    ELSE SplitFrom(s, i + 1, Append(cur, s[i]), acc)

Split(s) == SplitFrom(s, 1, <<>>, <<>>)

\* String.prototype.trim on a string whose only white space is " "
RECURSIVE TrimLeft(_)
TrimLeft(s) ==
    IF Len(s) > 0 /\ s[1] = " " THEN TrimLeft(Tail(s)) ELSE s

Trim(s) == Reverse(TrimLeft(Reverse(TrimLeft(s))))

\* whether pat occurs in s at position i
MatchAt(s, i, pat) ==
    /\ i + Len(pat) - 1 <= Len(s)
    /\ \A k \in 1..Len(pat) : s[i + k - 1] = pat[k]

\* String.prototype.replace(/pat/g, rep): leftmost non-overlapping matches
RECURSIVE ReplaceFrom(_, _, _, _, _)
ReplaceFrom(s, i, pat, rep, acc) ==
    IF i > Len(s) THEN acc
    ELSE IF MatchAt(s, i, pat)
         THEN ReplaceFrom(s, i + Len(pat), pat, rep, acc \o rep)
         ELSE ReplaceFrom(s, i + 1, pat, rep, Append(acc, s[i]))

ReplaceAll(s, pat, rep) == ReplaceFrom(s, 1, pat, rep, <<>>)

-----------------------------------------------------------------------------
(* Numbers.                                                                *)

Abs(n) == IF n < 0 THEN -n ELSE n

RECURSIVE GCD(_, _)
GCD(a, b) == IF b = 0 THEN a ELSE GCD(b, a % b)

Norm(n, d) ==
    LET sn == IF d < 0 THEN -n ELSE n
        sd == Abs(d)
        g == GCD(Abs(sn), sd)
    IN  <<sn \div g, sd \div g>>

Num(n) == <<n, 1>>

IsZero(v) == v[1] = 0

RECURSIVE Pow10(_)
Pow10(k) == IF k = 0 THEN 1 ELSE 10 * Pow10(k - 1)

\* value of a run of decimal digits
RECURSIVE DigitsVal(_, _)
DigitsVal(s, acc) ==
    IF Len(s) = 0 THEN acc ELSE DigitsVal(Tail(s), 10 * acc + DigitVal(s[1]))

\* end (exclusive) of the run of digits of s that starts at i
RECURSIVE DigitRunEnd(_, _)
DigitRunEnd(s, i) ==
    IF i <= Len(s) /\ s[i] \in Digits THEN DigitRunEnd(s, i + 1) ELSE i

NaN == <<0, 0>>

isNaN(v) == v = NaN

(* parseFloat: the value of the longest prefix of the token that is a     *)
(* decimal literal, [+-] digits [. digits] [e [+-] digits] or              *)
(* [+-] . digits [e ...]; NaN when there is none.  Whatever follows the    *)
(* literal is ignored.  ("Infinity" needs letters outside every alphabet   *)
(* drawn here.)                                                            *)

\* mant / scale * 10^exp, negated when neg
Scaled(mant, scale, exp, neg) ==
    LET abs == IF exp < 0 THEN Norm(mant, scale * Pow10(-exp))
                          ELSE Norm(mant * Pow10(exp), scale)
    IN  IF neg THEN <<-abs[1], abs[2]>> ELSE abs

\* the exponent digits token[e0 .. e1-1], if any, with their sign
ParseExponentDigits(token, e0, e1, expNeg) ==
    IF e1 > e0
    THEN IF expNeg THEN -DigitsVal(SubSeq(token, e0, e1 - 1), 0)
                   ELSE DigitsVal(SubSeq(token, e0, e1 - 1), 0)
    ELSE 0

\* the exponent part, which starts at i2 when there is one
ParseExponent(token, i2) ==
    LET hasE == i2 <= Len(token) /\ token[i2] \in {"e", "E"}
        eSign == hasE /\ i2 + 1 <= Len(token) /\ token[i2 + 1] \in {"+", "-"}
        e0 == IF eSign THEN i2 + 2 ELSE i2 + 1
    IN  IF hasE
        THEN ParseExponentDigits(token, e0, DigitRunEnd(token, e0),
                                 eSign /\ token[i2 + 1] = "-")
        ELSE 0

\* the literal has integer digits intDigits and fraction digits fracDigits
\* and ends before i2
ParseDigits(token, intDigits, fracDigits, i2, neg) ==
    IF Len(intDigits) + Len(fracDigits) = 0 THEN NaN
    ELSE Scaled(DigitsVal(intDigits \o fracDigits, 0), Pow10(Len(fracDigits)),
                ParseExponent(token, i2), neg)

\* the integer digits are token[i0 .. i1-1]
ParseFraction(token, i0, i1, neg) ==
    IF i1 <= Len(token) /\ token[i1] = "."
    THEN ParseDigits(token, SubSeq(token, i0, i1 - 1),
                     SubSeq(token, i1 + 1, DigitRunEnd(token, i1 + 1) - 1),
                     DigitRunEnd(token, i1 + 1), neg)
    ELSE ParseDigits(token, SubSeq(token, i0, i1 - 1), <<>>, i1, neg)

parseFloat(token) ==
    LET hasSign == Len(token) > 0 /\ token[1] \in {"+", "-"}
        i0 == IF hasSign THEN 2 ELSE 1
    IN  ParseFraction(token, i0, DigitRunEnd(token, i0), hasSign /\ token[1] = "-")

-----------------------------------------------------------------------------
(* Results of a call: a returned value or a thrown error.                  *)

Return(v) == [threw |-> FALSE, value |-> v, message |-> "", variable |-> <<>>]

Throw(msg) == [threw |-> TRUE, value |-> <<>>, message |-> msg, variable |-> <<>>]

ThrowVar(msg, token) ==
    [threw |-> TRUE, value |-> <<>>, message |-> msg, variable |-> token]

InvalidCharacter ==
    "Invalid characters in expression. Only letters (a-z), numbers (0-9), +, -, *, /, (, ) are allowed."
UnmatchedClosingParen == "Unmatched closing parenthesis"
UnmatchedOpeningParen == "Unmatched opening parenthesis"
ConsecutiveOperators == "Consecutive operators are not allowed"
InvalidBoundary == "Expression cannot start or end with +, *, or /"
EmptyParens == "Empty parentheses are not allowed"
InsufficientOperandsPostfix == "Invalid postfix expression: insufficient operands"
InsufficientOperandsPrefix == "Invalid prefix expression: insufficient operands"
MalformedPostfix == "Invalid postfix expression: incorrect number of operators"
MalformedPrefix == "Invalid prefix expression: incorrect number of operators"
UnboundVariable == "Cannot evaluate expression with variables. Variable has no assigned value."
DivisionByZero == "Division by zero"
UnknownOperator == "Unknown operator"

-----------------------------------------------------------------------------
(* The operator table and the character classes.                           *)

operators ==
    [op \in {"+", "-", "*", "/"} |->
        IF op \in {"+", "-"}
        THEN [precedence |-> 1, associativity |-> "left"]
        ELSE [precedence |-> 2, associativity |-> "left"]]

(* The keys every object literal inherits from Object.prototype: "in"     *)
(* finds them in this.operators too.                                       *)
ObjectPrototypeKeys ==
    {<<"c", "o", "n", "s", "t", "r", "u", "c", "t", "o", "r">>,
     <<"h", "a", "s", "O", "w", "n", "P", "r", "o", "p", "e", "r", "t", "y">>,
     <<"i", "s", "P", "r", "o", "t", "o", "t", "y", "p", "e", "O", "f">>,
     <<"p", "r", "o", "p", "e", "r", "t", "y", "I", "s", "E", "n", "u", "m", "e", "r", "a", "b", "l", "e">>,
     <<"t", "o", "L", "o", "c", "a", "l", "e", "S", "t", "r", "i", "n", "g">>,
     <<"t", "o", "S", "t", "r", "i", "n", "g">>,
     <<"v", "a", "l", "u", "e", "O", "f">>,
     <<"_", "_", "p", "r", "o", "t", "o", "_", "_">>,
     <<"_", "_", "d", "e", "f", "i", "n", "e", "G", "e", "t", "t", "e", "r", "_", "_">>,
     <<"_", "_", "d", "e", "f", "i", "n", "e", "S", "e", "t", "t", "e", "r", "_", "_">>,
     <<"_", "_", "l", "o", "o", "k", "u", "p", "G", "e", "t", "t", "e", "r", "_", "_">>,
     <<"_", "_", "l", "o", "o", "k", "u", "p", "S", "e", "t", "t", "e", "r", "_", "_">>}

\* isOperator: "char in this.operators", own and inherited keys
isOperator(char) ==
    \/ Len(char) = 1 /\ char[1] \in DOMAIN operators
    \/ char \in ObjectPrototypeKeys

\* isOperand: /[0-9a-zA-Z]/.test(char), for one character
isOperand(char) == char \in Digits \cup Letters

\* getPrecedence: this.operators[op]?.precedence || 0
getPrecedence(op) ==
    IF op \in DOMAIN operators THEN operators[op].precedence ELSE 0

\* isLeftAssociative: this.operators[op]?.associativity === 'left'
isLeftAssociative(op) ==
    op \in DOMAIN operators /\ operators[op].associativity = "left"

-----------------------------------------------------------------------------
(* validateExpression.                                                     *)

ValidChars == Digits \cup Letters \cup {"+", "-", "*", "/", "(", ")", "."}

OperatorChars == {"+", "-", "*", "/"}

\* /^[a-zA-Z0-9+\-*/().]+$/.test(expression)
validChars(expression) ==
    /\ Len(expression) >= 1
    /\ \A i \in 1..Len(expression) : expression[i] \in ValidChars

\* the balance loop without its test inside the loop: only the final balance
RECURSIVE BalanceLoopFinalOnly(_, _, _)
BalanceLoopFinalOnly(expression, i, balance) ==
    IF i > Len(expression) THEN balance
    ELSE BalanceLoopFinalOnly(expression, i + 1,
            IF expression[i] = "(" THEN balance + 1
            ELSE IF expression[i] = ")" THEN balance - 1
            ELSE balance)

(* The balance loop: -1 as soon as the running balance is negative, else  *)
(* the balance after the last character.                                   *)
RECURSIVE BalanceLoop(_, _, _)
BalanceLoop(expression, i, balance) ==
    IF i > Len(expression) THEN balance
    ELSE LET char == expression[i]
             b == IF char = "(" THEN balance + 1
                  ELSE IF char = ")" THEN balance - 1
                  ELSE balance
         IN  IF b < 0 THEN -1 ELSE BalanceLoop(expression, i + 1, b)

\* /[+\-*/]{2,}/.test(expression)
HasConsecutiveOperators(expression) ==
    \E i \in 1..(Len(expression) - 1) :
        expression[i] \in OperatorChars /\ expression[i + 1] \in OperatorChars

\* /[+*/]$/.test(expression) || /^[+*/]/.test(expression)
HasBoundaryOperator(expression) ==
    /\ Len(expression) >= 1
    /\ \/ expression[Len(expression)] \in {"+", "*", "/"}
       \/ expression[1] \in {"+", "*", "/"}

\* /\(\)/.test(expression)
HasEmptyParens(expression) ==
    \E i \in 1..(Len(expression) - 1) :
        expression[i] = "(" /\ expression[i + 1] = ")"

validateExpression(expression) ==
    IF ~validChars(expression) THEN Throw(InvalidCharacter)
    ELSE LET balance == BalanceLoop(expression, 1, 0)
         IN  IF balance < 0 THEN Throw(UnmatchedClosingParen)
             ELSE IF balance # 0 THEN Throw(UnmatchedOpeningParen)
             ELSE IF HasConsecutiveOperators(expression)
                  THEN Throw(ConsecutiveOperators)
             ELSE IF HasBoundaryOperator(expression) THEN Throw(InvalidBoundary)
             ELSE IF HasEmptyParens(expression) THEN Throw(EmptyParens)
             ELSE Return(<<>>)

-----------------------------------------------------------------------------
(* infixToPostfix.  The loop state is the output array, the operator      *)
(* stack (top at the end) and this.steps.  A step is <<text, token,        *)
(* snapshot>>: the template's fixed text, the token it names and the array *)
(* it prints.                                                              *)

Top(stack) == stack[Len(stack)]

Pop(stack) == SubSeq(stack, 1, Len(stack) - 1)

Step(text, token, snapshot) == <<text, token, snapshot>>

\* the operand branch without its inner while: one character per operand
OperandRunEndOneCharacter(infix, i) == i + 1

\* the inner while of the operand branch: where the operand run ends
RECURSIVE OperandRunEnd(_, _)
OperandRunEnd(infix, i) ==
    IF i <= Len(infix) /\ isOperand(infix[i])
    THEN OperandRunEnd(infix, i + 1)
    ELSE i

\* the while of the ')' branch
RECURSIVE PopToParen(_)
PopToParen(st) ==
    IF Len(st.operatorStack) > 0 /\ Top(st.operatorStack) # "("
    THEN LET op == Top(st.operatorStack)
             output == Append(st.output, <<op>>)
         IN  PopToParen([output |-> output,
                         operatorStack |-> Pop(st.operatorStack),
                         steps |-> Append(st.steps,
                                     Step("Read ')' -> Pop to output", <<op>>, output))])
    ELSE st

\* the ')' branch: pop to the '(' and remove it when there is one
CloseParen(st) ==
    LET popped == PopToParen(st)
    IN  IF Len(popped.operatorStack) > 0
        THEN LET stack == Pop(popped.operatorStack)
             IN  [popped EXCEPT !.operatorStack = stack,
                                !.steps = Append(@, Step("Remove '(' from stack", <<"(">>, stack))]
        ELSE popped

\* the loop condition of the operator branch
PopsBefore(top, char) ==
    /\ top # "("
    /\ \/ getPrecedence(top) > getPrecedence(char)
       \/ getPrecedence(top) = getPrecedence(char) /\ isLeftAssociative(char)

\* the while of the operator branch
RECURSIVE PopOperators(_, _)
PopOperators(st, char) ==
    IF Len(st.operatorStack) > 0 /\ PopsBefore(Top(st.operatorStack), char)
    THEN LET op == Top(st.operatorStack)
             output == Append(st.output, <<op>>)
         IN  PopOperators([output |-> output,
                           operatorStack |-> Pop(st.operatorStack),
                           steps |-> Append(st.steps,
                                       Step("Pop (higher/equal precedence) to output", <<op>>, output))],
                          char)
    ELSE st

\* the operator branch
PushOperator(st, char) ==
    LET popped == PopOperators(st, char)
        stack == Append(popped.operatorStack, char)
    IN  [popped EXCEPT !.operatorStack = stack,
                       !.steps = Append(@, Step("Push to stack", <<char>>, stack))]

\* the for loop over the characters of infix
RECURSIVE PostfixLoop(_, _, _)
PostfixLoop(infix, i, st) ==
    IF i > Len(infix) THEN st
    ELSE LET char == infix[i]
         IN  IF isOperand(char)
             THEN LET j == OperandRunEnd(infix, i)
                      operand == SubSeq(infix, i, j - 1)
                      output == Append(st.output, operand)
                  IN  PostfixLoop(infix, j,
                        [st EXCEPT !.output = output,
                                   !.steps = Append(@, Step("Read operand -> Output", operand, output))])
             ELSE IF char = "("
             THEN LET stack == Append(st.operatorStack, char)
                  IN  PostfixLoop(infix, i + 1,
                        [st EXCEPT !.operatorStack = stack,
                                   !.steps = Append(@, Step("Read '(' -> Push to stack", <<char>>, stack))])
             ELSE IF char = ")"
             THEN PostfixLoop(infix, i + 1, CloseParen(st))
             ELSE IF isOperator(<<char>>)
             THEN PostfixLoop(infix, i + 1, PushOperator(st, char))
             ELSE PostfixLoop(infix, i + 1, st)

\* the final while: pop the remaining operators
RECURSIVE PopRemaining(_)
PopRemaining(st) ==
    IF Len(st.operatorStack) > 0
    THEN LET op == Top(st.operatorStack)
             output == Append(st.output, <<op>>)
         IN  PopRemaining([output |-> output,
                           operatorStack |-> Pop(st.operatorStack),
                           steps |-> Append(st.steps,
                                       Step("Pop remaining to output", <<op>>, output))])
    ELSE st

(* infixToPostfix(infix) on an object whose this.steps is steps0: the      *)
(* returned string and this.steps afterwards.                              *)
\* output.join(' ') and the last step
PostfixJoined(st, result) ==
    [result |-> result,
     steps |-> Append(st.steps, Step("Final Postfix", result, <<>>))]

PostfixFinal(st) == PostfixJoined(st, Join(st.output, <<" ">>))

infixToPostfix(infix, steps0) ==
    PostfixFinal(PopRemaining(PostfixLoop(infix, 1,
        [output |-> <<>>, operatorStack |-> <<>>,
         steps |-> Append(steps0,
                     Step("Converting to Postfix (Shunting Yard Algorithm):", <<>>, <<>>))])))

-----------------------------------------------------------------------------
(* infixToPostfixForPrefix: the same loop without steps, popping on        *)
(* greater or equal precedence.  The loop state is the output array and    *)
(* the operator stack.                                                     *)

RECURSIVE PopToParenForPrefix(_)
PopToParenForPrefix(st) ==
    IF Len(st.operatorStack) > 0 /\ Top(st.operatorStack) # "("
    THEN PopToParenForPrefix([output |-> Append(st.output, <<Top(st.operatorStack)>>),
                              operatorStack |-> Pop(st.operatorStack)])
    ELSE st

CloseParenForPrefix(st) ==
    LET popped == PopToParenForPrefix(st)
    IN  IF Len(popped.operatorStack) > 0
        THEN [popped EXCEPT !.operatorStack = Pop(@)]
        ELSE popped

\* the loop condition of the operator branch
PopsBeforeForPrefix(top, char) ==
    /\ top # "("
    /\ getPrecedence(top) >= getPrecedence(char)

RECURSIVE PopOperatorsForPrefix(_, _)
PopOperatorsForPrefix(st, char) ==
    IF Len(st.operatorStack) > 0 /\ PopsBeforeForPrefix(Top(st.operatorStack), char)
    THEN PopOperatorsForPrefix([output |-> Append(st.output, <<Top(st.operatorStack)>>),
                                operatorStack |-> Pop(st.operatorStack)],
                               char)
    ELSE st

PushOperatorForPrefix(st, char) ==
    LET popped == PopOperatorsForPrefix(st, char)
    IN  [popped EXCEPT !.operatorStack = Append(@, char)]

RECURSIVE PostfixForPrefixLoop(_, _, _)
PostfixForPrefixLoop(infix, i, st) ==
    IF i > Len(infix) THEN st
    ELSE LET char == infix[i]
         IN  IF isOperand(char)
             THEN LET j == OperandRunEnd(infix, i)
                  IN  PostfixForPrefixLoop(infix, j,
                        [st EXCEPT !.output = Append(@, SubSeq(infix, i, j - 1))])
             ELSE IF char = "("
             THEN PostfixForPrefixLoop(infix, i + 1,
                        [st EXCEPT !.operatorStack = Append(@, char)])
             ELSE IF char = ")"
             THEN PostfixForPrefixLoop(infix, i + 1, CloseParenForPrefix(st))
             ELSE IF isOperator(<<char>>)
             THEN PostfixForPrefixLoop(infix, i + 1, PushOperatorForPrefix(st, char))
             ELSE PostfixForPrefixLoop(infix, i + 1, st)

RECURSIVE PopRemainingForPrefix(_)
PopRemainingForPrefix(st) ==
    IF Len(st.operatorStack) > 0
    THEN PopRemainingForPrefix([output |-> Append(st.output, <<Top(st.operatorStack)>>),
                                operatorStack |-> Pop(st.operatorStack)])
    ELSE st

infixToPostfixForPrefix(infix) ==
    LET start == [output |-> <<>>, operatorStack |-> <<>>]
        st == PopRemainingForPrefix(PostfixForPrefixLoop(infix, 1, start))
    IN  Join(st.output, <<" ">>)

-----------------------------------------------------------------------------
(* infixToPrefix.                                                          *)

\* replace(/\(/g, 'TEMP').replace(/\)/g, '(').replace(/TEMP/g, ')')
SwapParens(reversed) ==
    ReplaceAll(ReplaceAll(ReplaceAll(reversed, <<"(">>, <<"T", "E", "M", "P">>),
                          <<")">>, <<"(">>),
               <<"T", "E", "M", "P">>, <<")">>)

(* infixToPrefix(infix) on an object whose this.steps is steps0: the       *)
(* returned string and this.steps afterwards.                              *)
\* the result and the five steps, from the three intermediate strings
PrefixSteps(steps0, reversed, postfix, prefix) ==
    [result |-> prefix,
     steps |-> steps0 \o
               << Step("Converting to Prefix:", <<>>, <<>>),
                  Step("1. Reverse infix", reversed, <<>>),
                  Step("2. Replace ( with ) and vice versa", <<>>, <<>>),
                  Step("3. Convert to postfix", postfix, <<>>),
                  Step("4. Reverse result", prefix, <<>>) >>]

\* postfix.split(' ').reverse().join(' ')
PrefixOfPostfix(steps0, reversed, postfix) ==
    PrefixSteps(steps0, reversed, postfix, Join(Reverse(Split(postfix)), <<" ">>))

PrefixOfReversed(steps0, reversed) ==
    PrefixOfPostfix(steps0, reversed, infixToPostfixForPrefix(reversed))

infixToPrefix(infix, steps0) == PrefixOfReversed(steps0, SwapParens(Reverse(infix)))

-----------------------------------------------------------------------------
(* performOperation and the two evaluators.                                *)

Plus(a, b) == Norm(a[1] * b[2] + b[1] * a[2], a[2] * b[2])

Minus(a, b) == Norm(a[1] * b[2] - b[1] * a[2], a[2] * b[2])

Times(a, b) == Norm(a[1] * b[1], a[2] * b[2])

Over(a, b) == Norm(a[1] * b[2], a[2] * b[1])

\* performOperation with the zero test on the dividend instead of the divisor
performOperationZeroDividend(operand1, operand2, operator) ==
    IF operator = <<"+">> THEN Return(Plus(operand1, operand2))
    ELSE IF operator = <<"-">> THEN Return(Minus(operand1, operand2))
    ELSE IF operator = <<"*">> THEN Return(Times(operand1, operand2))
    ELSE IF operator = <<"/">>
    THEN IF IsZero(operand1) THEN Throw(DivisionByZero)
         ELSE IF IsZero(operand2) THEN Return(NaN)
         ELSE Return(Over(operand1, operand2))
    ELSE Throw(UnknownOperator)

performOperation(operand1, operand2, operator) ==
    IF operator = <<"+">> THEN Return(Plus(operand1, operand2))
    ELSE IF operator = <<"-">> THEN Return(Minus(operand1, operand2))
    ELSE IF operator = <<"*">> THEN Return(Times(operand1, operand2))
    ELSE IF operator = <<"/">>
    THEN IF IsZero(operand2) THEN Throw(DivisionByZero)
         ELSE Return(Over(operand1, operand2))
    ELSE Throw(UnknownOperator)

\* /^[a-zA-Z]+$/.test(token)
IsLetters(token) ==
    /\ Len(token) >= 1
    /\ \A i \in 1..Len(token) : token[i] \in Letters

\* the operator branch of evaluatePostfix: operand2 is popped first
ApplyPostfix(stack, token) ==
    LET operand2 == Top(stack)
        operand1 == Top(Pop(stack))
    IN  performOperation(operand1, operand2, token)

\* the for loop of evaluatePostfix: the result is the stack or a thrown error
RECURSIVE PostfixEvalLoop(_, _, _)

\* the operator was applied: its error is thrown on, its result pushed
PostfixEvalApplied(tokens, i, stack, result) ==
    IF result.threw THEN result
    ELSE PostfixEvalLoop(tokens, i + 1, Append(Pop(Pop(stack)), result.value))

\* one iteration, on token, whose parseFloat is number
PostfixEvalToken(tokens, i, stack, token, number) ==
    IF isOperator(token)
    THEN IF Len(stack) < 2 THEN Throw(InsufficientOperandsPostfix)
         ELSE PostfixEvalApplied(tokens, i, stack, ApplyPostfix(stack, token))
    ELSE IF ~isNaN(number) THEN PostfixEvalLoop(tokens, i + 1, Append(stack, number))
    ELSE IF IsLetters(token) THEN ThrowVar(UnboundVariable, token)
    ELSE PostfixEvalLoop(tokens, i + 1, stack)

PostfixEvalLoop(tokens, i, stack) ==
    IF i > Len(tokens) THEN Return(stack)
    ELSE PostfixEvalToken(tokens, i, stack, tokens[i], parseFloat(tokens[i]))

\* the end of evaluatePostfix without the test of the stack's length
PostfixResultTopOfStack(done) ==
    IF done.threw THEN done
    ELSE IF Len(done.value) = 0 THEN Throw(MalformedPostfix)
    ELSE Return(done.value[Len(done.value)])

\* after the loop: exactly one value must be left
PostfixResult(done) ==
    IF done.threw THEN done
    ELSE IF Len(done.value) # 1 THEN Throw(MalformedPostfix)
    ELSE Return(done.value[1])

evaluatePostfix(postfix) == PostfixResult(PostfixEvalLoop(Split(postfix), 1, <<>>))

\* the operator branch of evaluatePrefix with the pop order of evaluatePostfix
ApplyPrefixPostfixOrder(stack, token) ==
    LET operand2 == Top(stack)
        operand1 == Top(Pop(stack))
    IN  performOperation(operand1, operand2, token)

\* the operator branch of evaluatePrefix: operand1 is popped first
ApplyPrefix(stack, token) ==
    LET operand1 == Top(stack)
        operand2 == Top(Pop(stack))
    IN  performOperation(operand1, operand2, token)

\* the for loop of evaluatePrefix over the reversed tokens: the result is the stack or a thrown error
RECURSIVE PrefixEvalLoop(_, _, _)

\* the operator was applied: its error is thrown on, its result pushed
PrefixEvalApplied(tokens, i, stack, result) ==
    IF result.threw THEN result
    ELSE PrefixEvalLoop(tokens, i + 1, Append(Pop(Pop(stack)), result.value))

\* one iteration, on token, whose parseFloat is number
PrefixEvalToken(tokens, i, stack, token, number) ==
    IF isOperator(token)
    THEN IF Len(stack) < 2 THEN Throw(InsufficientOperandsPrefix)
         ELSE PrefixEvalApplied(tokens, i, stack, ApplyPrefix(stack, token))
    ELSE IF ~isNaN(number) THEN PrefixEvalLoop(tokens, i + 1, Append(stack, number))
    ELSE IF IsLetters(token) THEN ThrowVar(UnboundVariable, token)
    ELSE PrefixEvalLoop(tokens, i + 1, stack)

PrefixEvalLoop(tokens, i, stack) ==
    IF i > Len(tokens) THEN Return(stack)
    ELSE PrefixEvalToken(tokens, i, stack, tokens[i], parseFloat(tokens[i]))

\* after the loop: exactly one value must be left
PrefixResult(done) ==
    IF done.threw THEN done
    ELSE IF Len(done.value) # 1 THEN Throw(MalformedPrefix)
    ELSE Return(done.value[1])

evaluatePrefix(prefix) ==
    PrefixResult(PrefixEvalLoop(Reverse(Split(prefix)), 1, <<>>))

-----------------------------------------------------------------------------
(* The page.  The text of an element is a string; the two placeholders are *)
(* one-element sequences, which no conversion produces.  An evaluation     *)
(* result is shown as `Result: ${result}`: number-to-string conversion is  *)
(* one-to-one, so the shown text is held as the pair of the label and the  *)
(* number.                                                                 *)

NoConversionYet == <<"No conversion yet">>

NoEvaluationYet == <<"No evaluation yet">>

NoSteps == <<"Enter an expression and convert to see algorithm steps">>

Shown(prefix, message, variable) ==
    [prefix |-> prefix, message |-> message, variable |-> variable]

NoError == Shown("", "", <<>>)

\* getInputValue: value.trim().replace(/\s+/g, '')
getInputValue == ReplaceAll(Trim(infixInput), <<" ">>, <<>>)

\* showError(message): the text is set and the banner shown
showError(shown) ==
    /\ errorMessage' = shown
    /\ errorVisible' = TRUE

\* hideError(): the banner is hidden, its text stays
hideError ==
    /\ errorVisible' = FALSE
    /\ UNCHANGED errorMessage

\* handleConvert without this.steps = []: the buffer keeps its earlier steps
handleConvertKeepingSteps ==
    \E infix \in {getInputValue} :
      /\ UNCHANGED <<infixInput, postfixEvalResult, prefixEvalResult, call, ret>>
      /\ IF Trim(infix) = <<>>
         THEN /\ showError(Shown("", "Please enter an infix expression", <<>>))
              /\ UNCHANGED <<postfixResult, prefixResult, stepsContainer, steps,
                             evalDisabled>>
         ELSE \E valid \in {validateExpression(infix)} :
                IF valid.threw
                THEN /\ showError(Shown("", valid.message, <<>>))
                     /\ UNCHANGED <<postfixResult, prefixResult, stepsContainer,
                                    steps, evalDisabled>>
                ELSE \E postfix \in {infixToPostfix(infix, steps)} :
                     \E prefix \in {infixToPrefix(infix, postfix.steps)} :
                       /\ hideError
                       /\ steps' = prefix.steps
                       /\ postfixResult' = postfix.result
                       /\ prefixResult' = prefix.result
                       /\ stepsContainer' = prefix.steps
                       /\ evalDisabled' = FALSE

handleConvert ==
    \E infix \in {getInputValue} :
      /\ UNCHANGED <<infixInput, postfixEvalResult, prefixEvalResult, call, ret>>
      /\ IF Trim(infix) = <<>>
         THEN /\ showError(Shown("", "Please enter an infix expression", <<>>))
              /\ UNCHANGED <<postfixResult, prefixResult, stepsContainer, steps,
                             evalDisabled>>
         ELSE \E valid \in {validateExpression(infix)} :
                IF valid.threw
                THEN /\ showError(Shown("", valid.message, <<>>))
                     /\ UNCHANGED <<postfixResult, prefixResult, stepsContainer,
                                    steps, evalDisabled>>
                ELSE \E postfix \in {infixToPostfix(infix, <<>>)} :
                     \E prefix \in {infixToPrefix(infix, postfix.steps)} :
                       /\ hideError
                       /\ steps' = prefix.steps
                       /\ postfixResult' = postfix.result
                       /\ prefixResult' = prefix.result
                       /\ stepsContainer' = prefix.steps
                       /\ evalDisabled' = FALSE

handleEvaluatePostfix ==
    /\ ~evalDisabled
    /\ UNCHANGED <<infixInput, postfixResult, prefixResult, prefixEvalResult,
                   stepsContainer, steps, evalDisabled, call, ret>>
    /\ \E postfix \in {Trim(postfixResult)} :
         IF postfix = <<>> \/ postfix = NoConversionYet
         THEN /\ showError(Shown("", "Please convert an expression first", <<>>))
              /\ UNCHANGED postfixEvalResult
         ELSE \E result \in {evaluatePostfix(postfix)} :
                IF result.threw
                THEN /\ showError(Shown("Error evaluating postfix: ",
                                        result.message, result.variable))
                     /\ UNCHANGED postfixEvalResult
                ELSE /\ hideError
                     /\ postfixEvalResult' = <<"Result: ", result.value>>

handleEvaluatePrefix ==
    /\ ~evalDisabled
    /\ UNCHANGED <<infixInput, postfixResult, prefixResult, postfixEvalResult,
                   stepsContainer, steps, evalDisabled, call, ret>>
    /\ \E prefix \in {Trim(prefixResult)} :
         IF prefix = <<>> \/ prefix = NoConversionYet
         THEN /\ showError(Shown("", "Please convert an expression first", <<>>))
              /\ UNCHANGED prefixEvalResult
         ELSE \E result \in {evaluatePrefix(prefix)} :
                IF result.threw
                THEN /\ showError(Shown("Error evaluating prefix: ",
                                        result.message, result.variable))
                     /\ UNCHANGED prefixEvalResult
                ELSE /\ hideError
                     /\ prefixEvalResult' = <<"Result: ", result.value>>

handleClear ==
    /\ infixInput' = <<>>
    /\ postfixResult' = NoConversionYet
    /\ prefixResult' = NoConversionYet
    /\ postfixEvalResult' = NoEvaluationYet
    /\ prefixEvalResult' = NoEvaluationYet
    /\ stepsContainer' = NoSteps
    /\ hideError
    /\ evalDisabled' = TRUE
    /\ UNCHANGED <<steps, call, ret>>

\* the timer showError starts: the banner hides itself after five seconds
ErrorTimeout ==
    /\ errorVisible
    /\ hideError
    /\ UNCHANGED <<infixInput, postfixResult, prefixResult, postfixEvalResult,
                   prefixEvalResult, stepsContainer, steps, evalDisabled, call, ret>>

\* the user edits the input field
TypeInput(text) ==
    /\ infixInput # text
    /\ infixInput' = text
    /\ UNCHANGED <<postfixResult, prefixResult, postfixEvalResult, prefixEvalResult,
                   stepsContainer, steps, errorMessage, errorVisible, evalDisabled,
                   call, ret>>

-----------------------------------------------------------------------------
(* Direct calls of the methods.                                            *)

NotCalled == [threw |-> FALSE, value |-> <<"not called">>, message |-> "",
              variable |-> <<>>]

Called(method) == [call EXCEPT !.method = method]

CallInfixToPostfix ==
    /\ call.method = "none"
    /\ \E r \in {infixToPostfix(call.argument, steps)} :
         /\ call' = Called("infixToPostfix")
         /\ ret' = Return(r.result)
         /\ steps' = r.steps
    /\ UNCHANGED uiVars

CallInfixToPrefix ==
    /\ call.method = "none"
    /\ \E r \in {infixToPrefix(call.argument, steps)} :
         /\ call' = Called("infixToPrefix")
         /\ ret' = Return(r.result)
         /\ steps' = r.steps
    /\ UNCHANGED uiVars

CallInfixToPostfixForPrefix ==
    /\ call.method = "none"
    /\ call' = Called("infixToPostfixForPrefix")
    /\ ret' = Return(infixToPostfixForPrefix(call.argument))
    /\ UNCHANGED <<steps, uiVars>>

CallEvaluatePostfix ==
    /\ call.method = "none"
    /\ call' = Called("evaluatePostfix")
    /\ ret' = evaluatePostfix(call.argument)
    /\ UNCHANGED <<steps, uiVars>>

CallEvaluatePrefix ==
    /\ call.method = "none"
    /\ call' = Called("evaluatePrefix")
    /\ ret' = evaluatePrefix(call.argument)
    /\ UNCHANGED <<steps, uiVars>>

-----------------------------------------------------------------------------
(* Input sets.                                                             *)

\* the sample expressions of the script
sampleExpressions ==
    << <<"(", "2", " ", "+", " ", "3", ")", " ", "*", " ", "4">>,
       <<"1", "0", " ", "+", " ", "2", " ", "*", " ", "6">>,
       <<"x", " ", "+", " ", "y", " ", "*", " ", "z">>,
       <<"2", " ", "+", " ", "3", " ", "*", " ", "4", " ", "-", " ", "5">>,
       <<"1", "0", "0", " ", "*", " ", "2", " ", "+", " ", "1", "2">>,
       <<"(", "1", " ", "+", " ", "2", ")", " ", "*", " ", "(", "3", " ", "+", " ", "4", ")">>,
       <<"(", "a", " ", "+", " ", "b", ")", " ", "*", " ", "c">>,
       <<"(", "p", " ", "+", " ", "q", ")", " ", "/", " ", "(", "r", " ", "-", " ", "s", ")">>,
       <<"a", " ", "*", " ", "b", " ", "+", " ", "c", " ", "*", " ", "d">> >>

\* how many of the sample expressions the user may type
MaxSamples == 3

\* inputs the validator refuses, and the empty field
RefusedInputs == {<<>>, <<"2", " ", "+">>, <<"(", "2">>}

TypedInputs ==
    {sampleExpressions[i] : i \in 1..MaxSamples} \cup RefusedInputs

InfixAlphabet == {"1", "2", "x", "+", "-", "*", "/", "(", ")", ".", "#"}

Strings(alphabet, n) == UNION {[1..k -> alphabet] : k \in 0..n}

\* expressions the documentation names, and some of their kin
NamedExpressions ==
    {<<"(", "2", "+", "3", ")", "*", "4">>,
     <<"1", "0", "+", "2", "*", "6">>,
     <<"2", "+", "3", "*", "4", "-", "5">>,
     <<"2", "+", "+", "3">>,
     <<"(", "2", "+", "3">>,
     <<"2", "+", "3", ")">>,
     <<"*", "2", "+", "3">>,
     <<"2", "#", "3">>,
     <<"-", "5", "+", "3">>,
     <<"3", "*", "-", "2">>,
     <<"2", "-", "1", "-", "1">>,
     <<"8", "/", "2", "/", "2">>,
     <<"2", ".", "5", "+", "1">>,
     <<"1", "2", "+", "x", "1">>,
     <<"8", "/", "(", "2", "-", "2", ")">>,
     <<"1", "e", "2", "+", "1">>}

\* arguments with white space, which only a direct call can pass
SpacedExpressions ==
    {<<"1", " ", "2", "+", "3">>,
     <<"(", "2", " ", "+", " ", "3", ")", " ", "*", " ", "4">>,
     <<"x", " ", "y">>,
     <<"2", " ", ")">>}

InfixInputs == Strings(InfixAlphabet, MaxLen) \cup NamedExpressions

EvalTokens ==
    {<<"0">>, <<"1">>, <<"2">>, <<"+">>, <<"-">>, <<"*">>, <<"/">>, <<"x", "1">>}

\* token streams the documentation names, and some of their kin
NamedStreams ==
    {<<"*", " ", "+", " ", "2", " ", "3", " ", "4">>,
     <<"-", " ", "5", " ", "3">>,
     <<"/", " ", "8", " ", "2">>,
     <<"2", " ", "3", " ", "+", " ", "4", " ", "*">>,
     <<"1", "0", " ", "2", " ", "6", " ", "*", " ", "+">>,
     <<"2", " ", "3", " ", "4", " ", "*", " ", "+", " ", "5", " ", "-">>,
     <<"x", " ", "2", " ", "+">>,
     <<"2", " ", "+">>,
     <<"2", " ", "0", " ", "/">>,
     <<"2", " ", "3">>,
     <<"2", "x", " ", "1", " ", "+">>,
     <<"x", "1", " ", "1", " ", "+">>,
     <<"-", " ", "2", " ", "-", " ", "1", " ", "1">>,
     <<"2", " ", "1", " ", "1", " ", "-", " ", "-">>}

TokenStreams ==
    {Join(ts, <<" ">>) : ts \in Strings(EvalTokens, MaxTokens)} \cup NamedStreams

-----------------------------------------------------------------------------
(* Specifications.                                                         *)

PageInit ==
    /\ postfixResult = NoConversionYet
    /\ prefixResult = NoConversionYet
    /\ postfixEvalResult = NoEvaluationYet
    /\ prefixEvalResult = NoEvaluationYet
    /\ stepsContainer = NoSteps
    /\ steps = <<>>
    /\ errorMessage = NoError
    /\ errorVisible = FALSE
    /\ evalDisabled = TRUE

NoCall == [method |-> "none", argument |-> <<>>]

\* the page after construction, and a user who types, clicks and waits
Init ==
    /\ infixInput = <<>>
    /\ PageInit
    /\ call = NoCall
    /\ ret = NotCalled

Next ==
    \/ \E text \in TypedInputs : TypeInput(text)
    \/ handleConvert
    \/ handleEvaluatePostfix
    \/ handleEvaluatePrefix
    \/ handleClear
    \/ ErrorTimeout

Spec == Init /\ [][Next]_vars

\* the page with one expression in the field, drawn from InfixInputs
InitConv ==
    /\ infixInput \in InfixInputs
    /\ PageInit
    /\ call = NoCall
    /\ ret = NotCalled

NextConv ==
    \/ handleConvert
    \/ handleEvaluatePostfix
    \/ handleEvaluatePrefix
    \/ handleClear
    \/ ErrorTimeout

SpecConv == InitConv /\ [][NextConv]_vars

\* one call of a conversion method on a string drawn from InfixInputs
InitCallConvert ==
    /\ infixInput = <<>>
    /\ PageInit
    /\ call \in {[method |-> "none", argument |-> a] :
                    a \in InfixInputs \cup SpacedExpressions}
    /\ ret = NotCalled

NextCallConvert ==
    \/ CallInfixToPostfix
    \/ CallInfixToPrefix
    \/ CallInfixToPostfixForPrefix

SpecCallConvert == InitCallConvert /\ [][NextCallConvert]_vars

\* one call of an evaluator on a token stream drawn from TokenStreams
InitCallEval ==
    /\ infixInput = <<>>
    /\ PageInit
    /\ call \in {[method |-> "none", argument |-> a] : a \in TokenStreams}
    /\ ret = NotCalled

NextCallEval ==
    \/ CallEvaluatePostfix
    \/ CallEvaluatePrefix

SpecCallEval == InitCallEval /\ [][NextCallEval]_vars

-----------------------------------------------------------------------------
(* The validator's five rules, stated on the expression as a whole.        *)

\* opening minus closing parentheses among the first k characters
ParenBalance(e, k) ==
    Cardinality({i \in 1..k : e[i] = "("}) - Cardinality({i \in 1..k : e[i] = ")"})

BreaksCharacterSet(e) ==
    \E i \in 1..Len(e) : ~(e[i] \in Digits \cup Letters \cup {"+", "-", "*", "/", "(", ")", "."})

BreaksClosing(e) == \E k \in 1..Len(e) : ParenBalance(e, k) < 0

BreaksOpening(e) == ~BreaksClosing(e) /\ ParenBalance(e, Len(e)) > 0

BreaksAdjacency(e) ==
    \E i \in 1..(Len(e) - 1) : {e[i], e[i + 1]} \subseteq {"+", "-", "*", "/"}

BreaksBoundary(e) ==
    Len(e) > 0 /\ ({e[1], e[Len(e)]} \cap {"+", "*", "/"} # {})

BreaksEmptyParens(e) ==
    \E i \in 1..(Len(e) - 1) : <<e[i], e[i + 1]>> = <<"(", ")">>

\* the error of the first rule e breaks, in the documented order; "" if none
FirstViolation(e) ==
    CASE BreaksCharacterSet(e) -> InvalidCharacter
      [] ~BreaksCharacterSet(e) /\ BreaksClosing(e) -> UnmatchedClosingParen
      [] ~BreaksCharacterSet(e) /\ BreaksOpening(e) -> UnmatchedOpeningParen
      [] OTHER ->
           IF BreaksAdjacency(e) THEN ConsecutiveOperators
           ELSE IF BreaksBoundary(e) THEN InvalidBoundary
           ELSE IF BreaksEmptyParens(e) THEN EmptyParens
           ELSE ""

ValidatorErrors ==
    {InvalidCharacter, UnmatchedClosingParen, UnmatchedOpeningParen,
     ConsecutiveOperators, InvalidBoundary, EmptyParens}

\* the banner shows an error thrown by validateExpression
ValidatorRefused ==
    errorVisible /\ errorMessage.prefix = "" /\ errorMessage.message \in ValidatorErrors

\* the page shows a conversion, which handleConvert makes only after
\* validateExpression returned
ValidatorAccepted == postfixResult # NoConversionYet

\* the documentation's rejected and accepted examples
RejectedExamples ==
    { <<<<"2", "+", "+", "3">>, ConsecutiveOperators>>,
      <<<<"(", "2", "+", "3">>, UnmatchedOpeningParen>>,
      <<<<"2", "+", "3", ")">>, UnmatchedClosingParen>>,
      <<<<"(", ")">>, EmptyParens>>,
      <<<<"*", "2", "+", "3">>, InvalidBoundary>>,
      <<<<"2", "#", "3">>, InvalidCharacter>>,
      <<<<"3", "*", "-", "2">>, ConsecutiveOperators>> }

AcceptedExamples == {<<"-", "5", "+", "3">>, <<"2", "-">>}

-----------------------------------------------------------------------------
(* The value of an infix expression under the standard rules, by recursive *)
(* descent: expr = ["-"] term {("+" | "-") term}, term = factor {("*" |    *)
(* "/") factor}, factor = number | "(" expr ")", number = digits ["."      *)
(* digits].  A parse is [ok, zero, val, next]: whether it succeeded,       *)
(* whether it divided by zero, its value, and the position after it.       *)

RefFail == [ok |-> FALSE, zero |-> FALSE, val |-> <<0, 1>>, next |-> 0]

RefValue(v, n) == [ok |-> TRUE, zero |-> FALSE, val |-> v, next |-> n]

\* left op right, where right was parsed after left
RefApply(left, op, right) ==
    IF ~left.ok \/ ~right.ok THEN RefFail
    ELSE IF left.zero \/ right.zero \/ (op = "/" /\ right.val[1] = 0)
    THEN [ok |-> TRUE, zero |-> TRUE, val |-> <<0, 1>>, next |-> right.next]
    ELSE RefValue(CASE op = "+" -> Plus(left.val, right.val)
                    [] op = "-" -> Minus(left.val, right.val)
                    [] op = "*" -> Times(left.val, right.val)
                    [] op = "/" -> Over(left.val, right.val),
                  right.next)

RefNumber(e, i) ==
    LET j == DigitRunEnd(e, i)
        k == IF j < Len(e) /\ e[j] = "." /\ e[j + 1] \in Digits
             THEN DigitRunEnd(e, j + 1) ELSE j
        int == DigitsVal(SubSeq(e, i, j - 1), 0)
    IN  IF k = j THEN RefValue(<<int, 1>>, j)
        ELSE RefValue(Norm(int * Pow10(k - j - 1) + DigitsVal(SubSeq(e, j + 1, k - 1), 0),
                           Pow10(k - j - 1)), k)

RECURSIVE RefExpr(_, _)
RECURSIVE RefExprRest(_, _)
RECURSIVE RefTerm(_, _)
RECURSIVE RefTermRest(_, _)
RECURSIVE RefFactor(_, _)

RefFactor(e, i) ==
    IF i > Len(e) THEN RefFail
    ELSE IF e[i] \in Digits THEN RefNumber(e, i)
    ELSE IF e[i] = "("
    THEN LET inner == RefExpr(e, i + 1)
         IN  IF inner.ok /\ inner.next <= Len(e) /\ e[inner.next] = ")"
             THEN [inner EXCEPT !.next = @ + 1]
             ELSE RefFail
    ELSE RefFail

RefTermRest(e, left) ==
    IF left.ok /\ left.next <= Len(e) /\ e[left.next] \in {"*", "/"}
    THEN RefTermRest(e, RefApply(left, e[left.next], RefFactor(e, left.next + 1)))
    ELSE left

RefTerm(e, i) == RefTermRest(e, RefFactor(e, i))

RefExprRest(e, left) ==
    IF left.ok /\ left.next <= Len(e) /\ e[left.next] \in {"+", "-"}
    THEN RefExprRest(e, RefApply(left, e[left.next], RefTerm(e, left.next + 1)))
    ELSE left

RefExpr(e, i) ==
    IF i <= Len(e) /\ e[i] = "-"
    THEN RefExprRest(e, RefApply(RefValue(<<0, 1>>, i), "-", RefTerm(e, i + 1)))
    ELSE RefExprRest(e, RefTerm(e, i))

\* the parse of the whole of e, failed unless it uses all of e
RefInfix(e) ==
    LET r == RefExpr(e, 1)
    IN  IF r.ok /\ r.next = Len(e) + 1 THEN r ELSE RefFail

\* every operand of e is a numeric literal: e has no letter
AllNumeric(e) == \A i \in 1..Len(e) : e[i] \notin Letters

PostfixEvaluated == postfixEvalResult # NoEvaluationYet

PrefixEvaluated == prefixEvalResult # NoEvaluationYet

PostfixFailed == errorVisible /\ errorMessage.prefix = "Error evaluating postfix: "

PrefixFailed == errorVisible /\ errorMessage.prefix = "Error evaluating prefix: "

(* C1: for an accepted expression whose operands are all numeric literals, *)
(* evaluating its postfix conversion and evaluating its prefix conversion  *)
(* give the same outcome: the same number, or both fail.                   *)
C1_PostfixPrefixAgree ==
    ValidatorAccepted /\ AllNumeric(infixInput) =>
        /\ PostfixEvaluated /\ PrefixEvaluated =>
             postfixEvalResult = prefixEvalResult
        /\ PostfixEvaluated => ~PrefixFailed
        /\ PrefixEvaluated => ~PostfixFailed

\* the documentation's conversions and values
PostfixExamples ==
    { <<<<"(", "2", "+", "3", ")", "*", "4">>, <<"2", " ", "3", " ", "+", " ", "4", " ", "*">>, 20>>,
      <<<<"1", "0", "+", "2", "*", "6">>, <<"1", "0", " ", "2", " ", "6", " ", "*", " ", "+">>, 22>>,
      <<<<"2", "+", "3", "*", "4", "-", "5">>, <<"2", " ", "3", " ", "4", " ", "*", " ", "+", " ", "5", " ", "-">>, 9>> }

(* C2: for an accepted expression whose operands are all numeric literals, *)
(* evaluating its postfix conversion gives the value of the expression     *)
(* under the standard rules (multiplication and division before addition  *)
(* and subtraction, equal precedence left to right, parentheses first);    *)
(* the documented examples convert and evaluate as listed.                 *)
C2_PostfixValue ==
    /\ ValidatorAccepted /\ AllNumeric(infixInput) /\ RefInfix(infixInput).ok =>
         /\ PostfixEvaluated =>
              /\ ~RefInfix(infixInput).zero
              /\ postfixEvalResult = <<"Result: ", RefInfix(infixInput).val>>
         /\ PostfixFailed =>
              /\ RefInfix(infixInput).zero
              /\ errorMessage.message = DivisionByZero
    /\ \A ex \in PostfixExamples :
         infixInput = ex[1] =>
           /\ ValidatorAccepted => postfixResult = ex[2]
           /\ ~PostfixFailed
           /\ PostfixEvaluated => postfixEvalResult = <<"Result: ", Num(ex[3])>>

-----------------------------------------------------------------------------
(* Token streams, and their values read as expression trees.               *)

\* the tokens of the argument of the call; the empty stream has none
ArgumentTokens == IF call.argument = <<>> THEN <<>> ELSE Split(call.argument)

\* digits, optionally followed by "." and digits
IsNumericLiteral(token) ==
    /\ Len(token) >= 1
    /\ token[1] \in Digits
    /\ RefNumber(token, 1).next = Len(token) + 1

IsOperatorToken(token) == token \in {<<"+">>, <<"-">>, <<"*">>, <<"/">>}

\* a nonempty run of letters and digits
IsOperandToken(token) ==
    /\ Len(token) >= 1
    /\ \A i \in 1..Len(token) : token[i] \in Letters \cup Digits

NumericStream(tokens) ==
    \A i \in 1..Len(tokens) :
        IsNumericLiteral(tokens[i]) \/ IsOperatorToken(tokens[i])

EvaluatorCalled == call.method \in {"evaluatePostfix", "evaluatePrefix"}

\* the token an evaluator reads first
FirstScanned(tokens) ==
    IF call.method = "evaluatePostfix" THEN tokens[1] ELSE tokens[Len(tokens)]

(* C4: an evaluator fails with UnboundVariable whenever the token stream   *)
(* holds an operand token that is not a numeric literal: it returns no     *)
(* number for such a stream, and when the first token it reads is such an  *)
(* operand the failure is UnboundVariable.                                 *)
C4_UnboundVariable ==
    EvaluatorCalled =>
        /\ (\E i \in 1..Len(ArgumentTokens) :
               /\ IsOperandToken(ArgumentTokens[i])
               /\ ~IsNumericLiteral(ArgumentTokens[i]))
           => ret.threw
        /\ (/\ ArgumentTokens # <<>>
            /\ IsOperandToken(FirstScanned(ArgumentTokens))
            /\ ~IsNumericLiteral(FirstScanned(ArgumentTokens)))
           => ret.message = UnboundVariable

(* The subexpression of a postfix stream that ends at token i, read right  *)
(* to left: an operator's right operand ends just before it, its left      *)
(* operand just before the right one.  next is the position before the     *)
(* subexpression.                                                          *)
RECURSIVE PostfixTree(_, _)
PostfixTree(tokens, i) ==
    IF i < 1 \/ i > Len(tokens) THEN RefFail
    ELSE IF IsNumericLiteral(tokens[i])
    THEN RefValue(RefNumber(tokens[i], 1).val, i - 1)
    ELSE IF IsOperatorToken(tokens[i])
    THEN LET right == PostfixTree(tokens, i - 1)
         IN  IF ~right.ok THEN RefFail
             ELSE LET left == PostfixTree(tokens, right.next)
                  IN  [RefApply(left, tokens[i][1], right) EXCEPT !.next = left.next]
    ELSE RefFail

(* The subexpression of a prefix stream that starts at token i, read left  *)
(* to right: an operator is followed by its left operand, then its right.  *)
RECURSIVE PrefixTree(_, _)
PrefixTree(tokens, i) ==
    IF i < 1 \/ i > Len(tokens) THEN RefFail
    ELSE IF IsNumericLiteral(tokens[i])
    THEN RefValue(RefNumber(tokens[i], 1).val, i + 1)
    ELSE IF IsOperatorToken(tokens[i])
    THEN LET left == PrefixTree(tokens, i + 1)
         IN  IF ~left.ok THEN RefFail
             ELSE RefApply(left, tokens[i][1], PrefixTree(tokens, left.next))
    ELSE RefFail

\* literals minus operators among tokens from..to: the values on the stack
StackDepth(tokens, from, to) ==
    Cardinality({i \in from..to : IsNumericLiteral(tokens[i])})
        - Cardinality({i \in from..to : IsOperatorToken(tokens[i])})

\* the operators a left-to-right scan meets with fewer than two values
PostfixUnderflows(tokens) ==
    {i \in 1..Len(tokens) :
        IsOperatorToken(tokens[i]) /\ StackDepth(tokens, 1, i - 1) < 2}

\* the operators a right-to-left scan meets with fewer than two values
PrefixUnderflows(tokens) ==
    {i \in 1..Len(tokens) :
        IsOperatorToken(tokens[i]) /\ StackDepth(tokens, i + 1, Len(tokens)) < 2}

\* the "/" tokens a left-to-right scan applies before any underflow
PostfixDivisions(tokens) ==
    {i \in 1..Len(tokens) :
        /\ tokens[i] = <<"/">>
        /\ \A u \in PostfixUnderflows(tokens) : i < u}

\* the "/" tokens a right-to-left scan applies before any underflow
PrefixDivisions(tokens) ==
    {i \in 1..Len(tokens) :
        /\ tokens[i] = <<"/">>
        /\ \A u \in PrefixUnderflows(tokens) : i > u}

\* some applied "/" of the postfix stream has a divisor of value zero
PostfixDividesByZero(tokens) ==
    \E i \in PostfixDivisions(tokens) : IsZero(PostfixTree(tokens, i - 1).val)

\* some applied "/" of the prefix stream has a divisor of value zero
PrefixDividesByZero(tokens) ==
    \E i \in PrefixDivisions(tokens) :
        IsZero(PrefixTree(tokens, PrefixTree(tokens, i + 1).next).val)

(* C5: on a stream of numeric literals and operators evaluatePostfix fails *)
(* with InsufficientOperands at the first operator it reaches with fewer   *)
(* than two values on the stack; otherwise, all tokens consumed, it        *)
(* returns the remaining value if exactly one remains and fails with       *)
(* MalformedExpression if none or several remain.  An operator is not      *)
(* reached, and the tokens are not all consumed, when an earlier division  *)
(* by zero has ended the evaluation.                                       *)
C5_PostfixStack ==
    /\ call.method = "evaluatePostfix" /\ NumericStream(ArgumentTokens) =>
         IF PostfixDividesByZero(ArgumentTokens)
         THEN ret = Throw(DivisionByZero)
         ELSE IF PostfixUnderflows(ArgumentTokens) # {}
         THEN ret = Throw(InsufficientOperandsPostfix)
         ELSE IF StackDepth(ArgumentTokens, 1, Len(ArgumentTokens)) = 1
         THEN ret = Return(PostfixTree(ArgumentTokens, Len(ArgumentTokens)).val)
         ELSE ret = Throw(MalformedPostfix)
    /\ call.method = "evaluatePostfix" /\ call.argument = <<"2", " ", "+">> =>
         ret = Throw(InsufficientOperandsPostfix)
    /\ call.method = "evaluatePostfix" /\ call.argument = <<"2", " ", "3">> =>
         ret = Throw(MalformedPostfix)

\* several values are left after an operator has been applied
C5_Witness ==
    /\ call.method = "evaluatePostfix"
    /\ NumericStream(ArgumentTokens)
    /\ PostfixUnderflows(ArgumentTokens) = {}
    /\ \E i \in 1..Len(ArgumentTokens) : IsOperatorToken(ArgumentTokens[i])
    /\ StackDepth(ArgumentTokens, 1, Len(ArgumentTokens)) = 2
    /\ ret = Throw(MalformedPostfix)

(* C6: on a stream of numeric literals and operators, an evaluator fails   *)
(* with DivisionByZero exactly when it applies a "/" whose right operand   *)
(* has value zero, literal or computed; a zero left operand alone never    *)
(* makes it fail; a failed evaluation returns no number.                   *)
C6_DivisionByZero ==
    /\ call.method = "evaluatePostfix" /\ NumericStream(ArgumentTokens) =>
         (ret.message = DivisionByZero <=> PostfixDividesByZero(ArgumentTokens))
    /\ call.method = "evaluatePrefix" /\ NumericStream(ArgumentTokens) =>
         (ret.message = DivisionByZero <=> PrefixDividesByZero(ArgumentTokens))
    /\ call.method = "evaluatePostfix" /\ call.argument = <<"0", " ", "2", " ", "/">> =>
         ret = Return(Num(0))
    /\ call.method = "evaluatePrefix" /\ call.argument = <<"/", " ", "0", " ", "2">> =>
         ret = Return(Num(0))
    /\ EvaluatorCalled /\ ret.message = DivisionByZero => ret = Throw(DivisionByZero)

\* the prefix evaluator divides by a computed zero: no token of the stream is 0
C6_Witness ==
    /\ call.method = "evaluatePrefix"
    /\ NumericStream(ArgumentTokens)
    /\ \A i \in 1..Len(ArgumentTokens) : ArgumentTokens[i] # <<"0">>
    /\ ret = Throw(DivisionByZero)

\* the stream is one complete prefix expression over numeric literals
WellFormedPrefix(tokens) ==
    /\ PrefixTree(tokens, 1).ok
    /\ PrefixTree(tokens, 1).next = Len(tokens) + 1

\* the documentation's prefix streams and their values
PrefixExamples ==
    { <<<<"-", " ", "5", " ", "3">>, 2>>,
      <<<<"/", " ", "8", " ", "2">>, 4>>,
      <<<<"*", " ", "+", " ", "2", " ", "3", " ", "4">>, 20>> }

(* C8: on a well-formed prefix stream over numeric literals evaluatePrefix *)
(* returns the value of the expression read in the usual way, the operand  *)
(* that follows an operator being its left operand (or fails with          *)
(* DivisionByZero when that reading divides by zero); "- 5 3" is 2,        *)
(* "/ 8 2" is 4 and "* + 2 3 4" is 20.                                     *)
C8_PrefixValue ==
    /\ call.method = "evaluatePrefix" /\ WellFormedPrefix(ArgumentTokens) =>
         IF PrefixTree(ArgumentTokens, 1).zero
         THEN ret = Throw(DivisionByZero)
         ELSE ret = Return(PrefixTree(ArgumentTokens, 1).val)
    /\ \A ex \in PrefixExamples :
         call.method = "evaluatePrefix" /\ call.argument = ex[1] =>
           ret = Return(Num(ex[2]))

\* a division whose right operand is itself an expression: "/ 1 + 1 1" is 1/2
C8_Witness ==
    /\ call.method = "evaluatePrefix"
    /\ WellFormedPrefix(ArgumentTokens)
    /\ Len(ArgumentTokens) = 5
    /\ ArgumentTokens[1] = <<"/">>
    /\ IsOperatorToken(ArgumentTokens[3])
    /\ ret = Return(<<1, 2>>)

-----------------------------------------------------------------------------
(* Direct calls of infixToPostfix.                                         *)

\* some ")" of e has no "(" before it to match
HasStrayClosingParen(e) == \E k \in 1..Len(e) : ParenBalance(e, k) < 0

(* C9: when infixToPostfix reads a ")" and the operator stack holds no "(" *)
(* to match it, the conversion fails and produces no postfix output.       *)
C9_UnmatchedParenFails ==
    call.method = "infixToPostfix" /\ HasStrayClosingParen(call.argument) =>
        ret.threw

IsOperandCharacter(c) == c \in Letters \cup Digits

\* where the maximal runs of letters and digits of e start
RunStarts(e) ==
    {i \in 1..Len(e) :
        IsOperandCharacter(e[i]) /\ (i = 1 \/ ~IsOperandCharacter(e[i - 1]))}

\* where the maximal run that starts at i ends
RunEnd(e, i) ==
    CHOOSE j \in i..Len(e) :
        /\ \A k \in i..j : IsOperandCharacter(e[k])
        /\ j = Len(e) \/ ~IsOperandCharacter(e[j + 1])

\* the maximal runs of letters and digits of e, left to right
MaximalRuns(e) ==
    [k \in 1..Cardinality(RunStarts(e)) |->
        LET start == CHOOSE s \in RunStarts(e) :
                        Cardinality({t \in RunStarts(e) : t <= s}) = k
        IN  SubSeq(e, start, RunEnd(e, start))]

\* the operand tokens of a result, left to right
OperandTokens(result) ==
    IF result = <<>> THEN <<>> ELSE SelectSeq(Split(result), IsOperandToken)

(* C10: the operand tokens of infixToPostfix's result, left to right, are  *)
(* exactly the maximal runs of letters and digits of its argument, in the  *)
(* argument's order, each run one token; "12+x1" gives "12" then "x1".     *)
C10_OperandRuns ==
    /\ call.method = "infixToPostfix" =>
         /\ ~ret.threw
         /\ OperandTokens(ret.value) = MaximalRuns(call.argument)
    /\ call.method = "infixToPostfix" /\ call.argument = <<"1", "2", "+", "x", "1">> =>
         OperandTokens(ret.value) = <<<<"1", "2">>, <<"x", "1">>>>

C10_Witness ==
    /\ call.method = "infixToPostfix"
    /\ call.argument = <<"1", "2", "+", "x", "1">>
    /\ ret.value = <<"1", "2", " ", "x", "1", " ", "+">>

-----------------------------------------------------------------------------
(* The step buffer across conversion requests.                             *)

IsPostfixHeader(step) == step[1] = "Converting to Postfix (Shunting Yard Algorithm):"

IsPrefixHeader(step) == step[1] = "Converting to Prefix:"

Cleaned(text) == ReplaceAll(Trim(text), <<" ">>, <<>>)

\* the buffer after a request for infix that started from an empty buffer
RequestTrace(infix) ==
    infixToPrefix(infix, infixToPostfix(infix, <<>>).steps).steps

\* the page shows the conversion of infix, run on an empty buffer
ShowsRequestOf(infix) ==
    /\ stepsContainer = RequestTrace(infix)
    /\ postfixResult = infixToPostfix(infix, <<>>).result
    /\ prefixResult = infixToPrefix(infix, <<>>).result

-----------------------------------------------------------------------------
(* The operands of the prefix form.                                        *)

(* C11: for an accepted expression the operand tokens of the prefix        *)
(* result are, character for character and in the same left-to-right       *)
(* order, the operand tokens of the expression; "10" stays "10".           *)
C11_PrefixOperands ==
    /\ ValidatorAccepted =>
         OperandTokens(prefixResult) = MaximalRuns(getInputValue)
    /\ ValidatorAccepted /\ infixInput = <<"1", "0", "+", "2", "*", "6">> =>
         OperandTokens(prefixResult) = <<<<"1", "0">>, <<"2">>, <<"6">>>>

-----------------------------------------------------------------------------
(* The characters of the postfix form.                                     *)

\* how often the character c occurs in the string s
Occurrences(s, c) == Cardinality({i \in 1..Len(s) : s[i] = c})

\* the characters of the string s
Characters(s) == {s[i] : i \in 1..Len(s)}

(* C12: for an accepted expression infixToPostfix drops nothing but        *)
(* parentheses: the result has no "(" and no ")", and every other          *)
(* character occurs in the result, spaces aside, as often as in the        *)
(* expression, so the result has as many non-space characters as the       *)
(* expression has characters other than parentheses.                       *)
C12_PostfixKeepsCharacters ==
    ValidatorAccepted =>
        /\ Occurrences(postfixResult, "(") = 0
        /\ Occurrences(postfixResult, ")") = 0
        /\ \A c \in (Characters(getInputValue) \cup Characters(postfixResult))
                        \ {"(", ")", " "} :
             Occurrences(postfixResult, c) = Occurrences(getInputValue, c)
        /\ Len(postfixResult) - Occurrences(postfixResult, " ")
             = Len(getInputValue) - Occurrences(getInputValue, "(")
                                  - Occurrences(getInputValue, ")")

=============================================================================
